---- MODULE Spec2Model ----
(***************************************************************************)
(* Model of site/app.js, the surf-conditions map: the metric style         *)
(* registry and colour step function, the hover/tooltip and click/popup    *)
(* handlers, the initial map load and the periodic refresh.                *)
(*                                                                         *)
(* Numbers with a fractional part are kept as integers: metric values and  *)
(* thresholds in tenths (35 is 350, 0.2 is 2), zoom levels in tenths,      *)
(* longitudes and latitudes in thousandths of a degree.                    *)
(***************************************************************************)
EXTENDS Integers, Sequences, FiniteSets, TLC

\* ------------------------------------------------------------------ bounds

\* Load invocations (the initial one and the timer's) a behaviour may start
\* while the viewer uses the page, and while the page is left alone.
MaxLoads == 2
MaxIdleLoads == 3

\* ------------------------------------------------------- JavaScript values

Undefined == [t |-> "undefined"]
Null      == [t |-> "null"]
NaN       == [t |-> "nan"]
Num(n)    == [t |-> "num", n |-> n]
Str(s)    == [t |-> "str", s |-> s]

\* JavaScript truthiness of a property value.
Truthy(v) ==
  CASE v.t = "undefined" -> FALSE
    [] v.t = "null"      -> FALSE
    [] v.t = "nan"       -> FALSE
    [] v.t = "num"       -> v.n # 0
    [] v.t = "str"       -> v.s # <<>>

\* a || b
OrElse(a, b) == IF Truthy(a) THEN a ELSE b

\* Property lookup p[k] on a property bag: undefined when the key is absent.
Get(p, k) == IF k \in DOMAIN p THEN p[k] ELSE Undefined

\* -------------------------------------------------- metric style registry

\* Mutant: a registry whose qualityScore thresholds repeat a value.
METRIC_STYLES_Repeated ==
  LET style(stops, colors) ==
        [ stops |-> stops, colors |-> colors, defaultValue |-> 0,
          legend |-> [title |-> "", note |-> "", items |-> <<>>] ]
  IN  [ qualityScore |->
          style(<<350, 550, 550>>, <<"#e2554f", "#f0c24b", "#2fb95c", "#1bb7a6">>),
        waveHeightFt |-> style(<<10>>, <<"#5b2b7a", "#2f4ba0">>),
        windSuitability |-> style(<<2>>, <<"#e2554f", "#f0c24b">>),
        tideHeightFt |-> style(<<10>>, <<"#2f4ba0", "#1e88a8">>) ]

METRIC_STYLES ==
  [ qualityScore |->
      [ stops |-> <<350, 550, 750>>,
        colors |-> <<"#e2554f", "#f0c24b", "#2fb95c", "#1bb7a6">>,
        defaultValue |-> 0,
        legend |-> [ title |-> "Quality score (0-100)",
                     note |-> "Blend of swell (50), wind (30), and tide (20).",
                     items |-> << [label |-> "Poor (0-35)", color |-> "#e2554f"],
                                  [label |-> "Fair (35-55)", color |-> "#f0c24b"],
                                  [label |-> "Good (55-75)", color |-> "#2fb95c"],
                                  [label |-> "Great (75+)", color |-> "#1bb7a6"] >> ] ],
    waveHeightFt |->
      [ stops |-> <<10, 30, 50, 80, 120>>,
        colors |-> <<"#5b2b7a", "#2f4ba0", "#1e88a8", "#2fb95c", "#f0c24b", "#e2554f">>,
        defaultValue |-> 0,
        legend |-> [ title |-> "Wave height (ft)",
                     note |-> "",
                     items |-> << [label |-> "< 1 ft", color |-> "#5b2b7a"],
                                  [label |-> "1-3 ft", color |-> "#2f4ba0"],
                                  [label |-> "3-5 ft", color |-> "#1e88a8"],
                                  [label |-> "5-8 ft", color |-> "#2fb95c"],
                                  [label |-> "8-12 ft", color |-> "#f0c24b"],
                                  [label |-> "12+ ft", color |-> "#e2554f"] >> ] ],
    windSuitability |->
      [ stops |-> <<2, 5, 8>>,
        colors |-> <<"#e2554f", "#f0c24b", "#2fb95c", "#1bb7a6">>,
        defaultValue |-> 5,
        legend |-> [ title |-> "Wind suitability",
                     note |-> "1 = light offshore, 0 = strong onshore.",
                     items |-> << [label |-> "Poor (0-0.2)", color |-> "#e2554f"],
                                  [label |-> "OK (0.2-0.5)", color |-> "#f0c24b"],
                                  [label |-> "Good (0.5-0.8)", color |-> "#2fb95c"],
                                  [label |-> "Great (0.8+)", color |-> "#1bb7a6"] >> ] ],
    tideHeightFt |->
      [ stops |-> <<10, 30, 50, 70>>,
        colors |-> <<"#2f4ba0", "#1e88a8", "#2fb95c", "#f0c24b", "#e2554f">>,
        defaultValue |-> 0,
        legend |-> [ title |-> "Tide height (ft)",
                     note |-> "",
                     items |-> << [label |-> "< 1 ft", color |-> "#2f4ba0"],
                                  [label |-> "1-3 ft", color |-> "#1e88a8"],
                                  [label |-> "3-5 ft", color |-> "#2fb95c"],
                                  [label |-> "5-7 ft", color |-> "#f0c24b"],
                                  [label |-> "7+ ft", color |-> "#e2554f"] >> ] ] ]

\* The registry's keys.
MetricKeys == DOMAIN METRIC_STYLES

\* metric || "qualityScore": a missing metric (undefined, "") is the default key.
MetricOrDefault(metric) ==
  IF metric = "" THEN "qualityScore" ELSE metric

\* METRIC_STYLES[m] || METRIC_STYLES.qualityScore
StyleOf(m) ==
  IF m \in MetricKeys THEN METRIC_STYLES[m] ELSE METRIC_STYLES.qualityScore

\* The pairs pushed by style.stops.forEach: <<stop, colors[idx + 1]>> (the
\* source's arrays are 0-based, sequences 1-based: colors[idx + 1] is the
\* element after the stop's own position).
StopPairs(style) ==
  [i \in 1..Len(style.stops) |-> <<style.stops[i], style.colors[i + 1]>>]

\* ["step", ["coalesce", ["get", m], style.defaultValue], style.colors[0],
\*  stop, color, ...]
qualityColorExpression(metric) ==
  LET m == MetricOrDefault(metric)
      style == StyleOf(m)
  IN  [ get |-> m,
        coalesce |-> style.defaultValue,
        base |-> style.colors[1],
        steps |-> StopPairs(style) ]

\* What renderLegend writes into the legend element: the resolved style's
\* title, optional note and item rows.
renderLegend(metric) ==
  LET m == MetricOrDefault(metric)
      style == StyleOf(m)
  IN  [ title |-> style.legend.title,
        note |-> style.legend.note,
        rows |-> style.legend.items ]

\* The renderer's evaluation of the step expression on one feature's
\* properties: ["get", m] is null for an absent property, coalesce takes the
\* first non-null value, step returns the output of the last stop that is
\* <= the input, or the base output when the input is below the first stop.
\* Mutant: a stop is passed only by an input above it.
StepFrom_Exclusive(steps, i, x, acc) ==
  LET passed == {j \in i..Len(steps) : steps[j][1] < x}
  IN  IF passed = {} THEN acc
      ELSE steps[CHOOSE j \in passed : \A k \in passed : k <= j][2]

RECURSIVE StepFrom(_, _, _, _)
StepFrom(steps, i, x, acc) ==
  IF i > Len(steps) THEN acc
  ELSE IF steps[i][1] <= x THEN StepFrom(steps, i + 1, x, steps[i][2])
  ELSE acc

\* circle-color's default, used when the expression cannot be evaluated (its
\* input is not a number).
PaintDefault == "#000000"

EvalColor(expr, props) ==
  LET raw == Get(props, expr.get)
  IN  CASE raw.t = "num" -> StepFrom(expr.steps, 1, raw.n, expr.base)
        [] raw.t \in {"null", "undefined"} ->
             StepFrom(expr.steps, 1, expr.coalesce, expr.base)
        [] OTHER -> PaintDefault

\* ------------------------------------------------------ detail formatters

\* Text of a number kept in tenths, as a template literal prints it:
\* 32 is "3.2", 30 is "3", 0 is "0".
NumText(n) ==
  LET a == IF n < 0 THEN 0 - n ELSE n
      sign == IF n < 0 THEN "-" ELSE ""
  IN  IF a % 10 = 0 THEN sign \o ToString(a \div 10)
      ELSE sign \o ToString(a \div 10) \o "." \o ToString(a % 10)

\* A string property is kept as its sequence of characters.
RECURSIVE Text(_)
Text(cs) == IF cs = <<>> THEN "" ELSE Head(cs) \o Text(Tail(cs))

\* `${v}` for a property value.
ValueText(v) ==
  CASE v.t = "num"       -> NumText(v.n)
    [] v.t = "str"       -> Text(v.s)
    [] v.t = "nan"       -> "NaN"
    [] v.t = "null"      -> "null"
    [] v.t = "undefined" -> "undefined"

DigitValue(c) ==
  CASE c = "0" -> 0 [] c = "1" -> 1 [] c = "2" -> 2 [] c = "3" -> 3
    [] c = "4" -> 4 [] c = "5" -> 5 [] c = "6" -> 6 [] c = "7" -> 7
    [] c = "8" -> 8 [] c = "9" -> 9 [] OTHER -> -1

IsDigits(cs) == \A i \in 1..Len(cs) : DigitValue(cs[i]) >= 0

RECURSIVE DigitsValue(_, _)
DigitsValue(cs, acc) ==
  IF cs = <<>> THEN acc ELSE DigitsValue(Tail(cs), acc * 10 + DigitValue(Head(cs)))

\* Number(s) for a non-empty string of the shapes the data can hold: an
\* unsigned decimal with at most one significant fractional digit (trailing
\* zeros allowed) converts to that number, anything else to NaN.
NumberOfString(cs) ==
  LET dots == {i \in 1..Len(cs) : cs[i] = "."}
  IN  IF dots = {} THEN
        IF cs # <<>> /\ IsDigits(cs) THEN Num(10 * DigitsValue(cs, 0)) ELSE NaN
      ELSE
        LET d == CHOOSE i \in dots : \A j \in dots : i <= j
            whole == SubSeq(cs, 1, d - 1)
            frac == SubSeq(cs, d + 1, Len(cs))
        IN  IF Cardinality(dots) = 1 /\ IsDigits(whole) /\ IsDigits(frac)
               /\ Len(whole) + Len(frac) > 0
               /\ \A i \in 2..Len(frac) : frac[i] = "0"
            THEN Num(10 * DigitsValue(whole, 0)
                     + (IF frac = <<>> THEN 0 ELSE DigitValue(frac[1])))
            ELSE NaN

\* Number(v) for a property value.
NumberOf(v) ==
  CASE v.t = "num"       -> v
    [] v.t = "str"       -> IF v.s = <<>> THEN Num(0) ELSE NumberOfString(v.s)
    [] v.t = "null"      -> Num(0)
    [] OTHER             -> NaN

\* The placeholder glyph (U+2014, an em dash) and the degree sign (U+00B0),
\* written in ASCII.
Dash == "--"
Degree == "deg"

fmtMaybe(v, suffix) ==
  IF v.t = "null" \/ v.t = "undefined" \/ v.t = "nan" THEN Dash
  ELSE ValueText(v) \o suffix

\* The keys the mousemove handler coerces.
NumericKeys ==
  {"qualityScore", "waveHeightFt", "dominantPeriodS", "windSpeedMph",
   "tideHeightFt", "windSuitability"}

\* The mousemove handler's copy of the properties with numeric-looking values
\* of the numeric keys turned into numbers.
CoerceNumeric(p) ==
  [k \in DOMAIN p |->
     IF k \in NumericKeys /\ p[k].t # "undefined" /\ p[k].t # "null"
        /\ p[k] # Str(<<>>) /\ NumberOf(p[k]).t # "nan"
     THEN NumberOf(p[k]) ELSE p[k]]

\* p.name || "Unknown" and the like, as text.
TextOr(v, dflt) == IF Truthy(v) THEN ValueText(v) ELSE dflt

\* ${p.tideTrend ? `(${p.tideTrend})` : ""}
TrendText(p) ==
  IF Truthy(Get(p, "tideTrend")) THEN "(" \o ValueText(Get(p, "tideTrend")) \o ")" ELSE ""

\* The fields of the tooltip's markup, in order.
buildTooltipHtml(p) ==
  [ name    |-> TextOr(Get(p, "name"), "Unknown"),
    quality |-> fmtMaybe(Get(p, "qualityScore"), ""),
    wave    |-> fmtMaybe(Get(p, "waveHeightFt"), " ft"),
    period  |-> fmtMaybe(Get(p, "dominantPeriodS"), " s"),
    wind    |-> fmtMaybe(Get(p, "windSpeedMph"), " mph"),
    tide    |-> fmtMaybe(Get(p, "tideHeightFt"), " ft") \o " " \o TrendText(p) ]

\* The fields of the popup's markup, in order. The nested sources and
\* timestamps records are not present on a rendered feature's flattened
\* properties, so the flattened station fields and the placeholder are what
\* the optional chains yield.
buildPopupHtml(p) ==
  [ title     |-> TextOr(Get(p, "name"), "Unknown"),
    subtitle  |-> TextOr(Get(p, "region"), ""),
    score     |-> fmtMaybe(Get(p, "qualityScore"), "") \o " / 100",
    height    |-> fmtMaybe(Get(p, "waveHeightFt"), " ft"),
    period    |-> fmtMaybe(Get(p, "dominantPeriodS"), " s"),
    waveDir   |-> fmtMaybe(Get(p, "waveDirectionDeg"), Degree),
    windSpeed |-> fmtMaybe(Get(p, "windSpeedMph"), " mph"),
    windDir   |-> fmtMaybe(Get(p, "windDirectionDeg"), Degree),
    tide      |-> fmtMaybe(Get(p, "tideHeightFt"), " ft") \o " " \o TrendText(p),
    ndbc      |-> TextOr(Get(p, "ndbcStation"), Dash),
    tideStn   |-> TextOr(Get(p, "tideStation"), Dash),
    windSrc   |-> TextOr(Get(p, "windSource"), Dash),
    generated |-> Dash,
    buoyObs   |-> Dash ]

\* ------------------------------------------------------------ the dataset

\* The features the point-collection document can hold: the properties the
\* renderer hands to the handlers (id, name and metrics; any may be absent)
\* and the point's coordinates. Features 1 and 2 carry the ids 7 and 8,
\* features 3 and 4 carry no id.
FEATURES ==
  << [ coords |-> <<-122510, 37760>>,
       props |-> [ id |-> Str(<<"7">>), name |-> Str(<<"O", "B">>),
                   region |-> Str(<<"S", "F">>),
                   qualityScore |-> Num(800), waveHeightFt |-> Num(32),
                   dominantPeriodS |-> Num(140), windSpeedMph |-> Num(0),
                   tideHeightFt |-> Num(549), windSuitability |-> Num(5),
                   tideTrend |-> Str(<<"u", "p">>),
                   ndbcStation |-> Str(<<"4", "6">>) ] ],
     [ coords |-> <<-122640, 37900>>,
       props |-> [ id |-> Str(<<"8">>), name |-> Str(<<"S", "T">>),
                   qualityScore |-> Num(200),
                   waveHeightFt |-> Str(<<"3", ".", "2", "0">>),
                   dominantPeriodS |-> Null, windSpeedMph |-> NaN,
                   tideHeightFt |-> Str(<<"n", "/", "a">>) ] ],
     [ coords |-> <<-122480, 37500>>,
       props |-> [ name |-> Str(<<"P", "A">>), qualityScore |-> Num(549),
                   waveHeightFt |-> Num(0), windSuitability |-> Num(8) ] ],
     [ coords |-> <<-122330, 37990>>,
       props |-> [ qualityScore |-> Num(750), tideHeightFt |-> Num(10) ] ] >>

\* The editions of the point-collection document a fetch can return: none of
\* the spots, all of them, and a later edition that still holds spot 7.
Collections == { {}, {1, 2, 3, 4}, {1, 3} }

\* A parsed point-collection document: the load invocation that fetched it
\* and its features. beachesGeojson starts as null.
NullData == [ver |-> 0, feats |-> {}]

\* Screen points a pointer event can carry.
Points == { <<10, 10>>, <<20, 30>> }

\* --------------------------------------------------------- viewport policy

COVERAGE_SW == <<-122640, 37500>>
COVERAGE_NE == <<-122330, 37990>>

\* An empty LngLatBounds.
EmptyBounds == <<>>

bufferedBounds(sw, ne, bufferLon, bufferLat) ==
  << <<sw[1] - bufferLon, sw[2] - bufferLat>>,
     <<ne[1] + bufferLon, ne[2] + bufferLat>> >>

Min(S) == CHOOSE x \in S : \A y \in S : x <= y
Max(S) == CHOOSE x \in S : \A y \in S : x >= y

\* The bounding box of the features' coordinates (null or an empty
\* collection gives empty bounds).
computeFeatureBounds(featureCollection) ==
  LET cs == {FEATURES[f].coords : f \in featureCollection.feats}
  IN  IF cs = {} THEN EmptyBounds
      ELSE << <<Min({c[1] : c \in cs}), Min({c[2] : c \in cs})>>,
              <<Max({c[1] : c \in cs}), Max({c[2] : c \in cs})>> >>

\* The camera the Map constructor sets.
InitialCamera ==
  [op |-> "constructor", center |-> <<-122580, 37840>>, zoom |-> 94,
   bounds |-> EmptyBounds, padding |-> 0, maxZoom |-> 0]

\* map.fitBounds(fb, { padding: 40, duration: 0, maxZoom: 10.2 })
FitBounds(fb) ==
  [op |-> "fitBounds", center |-> <<>>, zoom |-> 0,
   bounds |-> fb, padding |-> 40, maxZoom |-> 102]

\* map.jumpTo({ center: [-122.46, 37.80], zoom: 10.1 })
JumpTo ==
  [op |-> "jumpTo", center |-> <<-122460, 37800>>, zoom |-> 101,
   bounds |-> EmptyBounds, padding |-> 0, maxZoom |-> 0]

\* Mutant: the load handler always takes the fixed centre and zoom.
InitialFraming_AlwaysJump(data) == JumpTo

\* The initial framing of the load handler.
InitialFraming(data) ==
  LET fb == computeFeatureBounds(data)
  IN  IF fb # EmptyBounds THEN FitBounds(fb) ELSE JumpTo

\* The map's pan and zoom limits before the load handler sets them.
UnsetLimits == [maxBounds |-> EmptyBounds, minZoom |-> 0, maxZoom |-> 220]

\* setMaxBounds, setMinZoom, setMaxZoom of the load handler.
LoadLimits ==
  [maxBounds |-> bufferedBounds(COVERAGE_SW, COVERAGE_NE, 15, 20),
   minZoom |-> 90, maxZoom |-> 135]

\* ------------------------------------------------------------------- state

VARIABLES
  viewer,                 \* the viewer uses the page ("active") or leaves it alone ("idle")
  token,                  \* MAPBOX_TOKEN is a non-empty string
  pc,                     \* where main and the map's load handler stand
  banner,                 \* error banners appended to the map element
  metricSelect,           \* metricSelect.value
  legend,                 \* the legend element's content
  statusText,             \* statusEl.textContent
  beachesGeojson,         \* the held point collection
  source,                 \* the map's "beaches" source: added, and its data
  layer,                  \* the "beach-points" layer: added, and circle-color
  camera,                 \* the last camera placement
  limits,                 \* max bounds and zoom range of the map
  tooltip,                \* the tooltip element: display, content, position
  cursor,                 \* the canvas cursor style
  activePopup,            \* handle of the popup the click handler holds
  activePopupLocationId,  \* spot id recorded for that popup
  popups,                 \* popups displayed on the map
  loads,                  \* loadDataAndRefreshSource invocations: where each stands
  timerOn,                \* setInterval has been called
  unhandled,              \* promise rejections no handler caught
  lastFetched,            \* the invocation whose point fetch resolved last
  pointer,                \* the feature the pointer was last moved over
  probe                   \* a metric key and a property bag handed to the style functions

vars ==
  << viewer, token, pc, banner, metricSelect, legend, statusText, beachesGeojson,
     source, layer, camera, limits, tooltip, cursor, activePopup,
     activePopupLocationId, popups, loads, timerOn, unhandled, lastFetched,
     pointer, probe >>

\* The hover/popup state and the styling, and the camera: what a refresh must
\* leave alone.
interactionVars ==
  << tooltip, cursor, activePopup, activePopupLocationId, popups, pointer >>
styleVars == << metricSelect, legend, layer >>
cameraVars == << camera, limits >>
dataVars == << beachesGeojson, source, statusText >>
loadVars == << loads, timerOn, unhandled, lastFetched >>
mainVars == << viewer, token, pc, banner, probe >>

\* activePopup = null
NullPopup == 0

NoHtml ==
  [name |-> "", quality |-> "", wave |-> "", period |-> "", wind |-> "",
   tide |-> ""]

HiddenTooltip == [display |-> "none", html |-> NoHtml, left |-> "", top |-> ""]

NoLayer == [added |-> FALSE, circleColor |-> qualityColorExpression("")]
NoSource == [added |-> FALSE, data |-> NullData]
NoLegend == [title |-> "", note |-> "", rows |-> <<>>]

\* The style functions have not been probed.
NoProbe == [metric |-> "", props |-> << >>, color |-> "", legend |-> NoLegend]

\* The pointer is not over a feature of the layer.
Away == 0

\* The features the layer renders, which pointer events can hit.
Rendered ==
  IF source.added /\ layer.added THEN source.data.feats ELSE {}

\* The state before main runs: the page's elements exist, the selector shows
\* the default metric.
Init ==
  /\ viewer \in {"active", "idle"}
  /\ token \in BOOLEAN
  /\ pc = "start"
  /\ banner = <<>>
  /\ metricSelect = "qualityScore"
  /\ legend = NoLegend
  /\ statusText = ""
  /\ beachesGeojson = NullData
  /\ source = NoSource
  /\ layer = NoLayer
  /\ camera = InitialCamera
  /\ limits = UnsetLimits
  /\ tooltip = HiddenTooltip
  /\ cursor = ""
  /\ activePopup = NullPopup
  /\ activePopupLocationId = Null
  /\ popups = {}
  /\ loads = <<>>
  /\ timerOn = FALSE
  /\ unhandled = 0
  /\ lastFetched = 0
  /\ pointer = Away
  /\ probe = NoProbe

\* ------------------------------------------------------------------- main

showErrorBanner(msg) == Append(banner, msg)

\* Mutant: main shows the banner for a missing token and goes on.
Main_NoReturn ==
  /\ pc = "start"
  /\ banner' = IF ~token THEN Append(banner, "Mapbox token not configured.")
                ELSE banner
  /\ camera' = InitialCamera
  /\ tooltip' = HiddenTooltip
  /\ legend' = renderLegend(metricSelect)
  /\ pc' = "waitLoad"
  /\ UNCHANGED << viewer, token, probe, metricSelect, statusText, beachesGeojson, source,
                  layer, limits, cursor, activePopup, activePopupLocationId,
                  popups, pointer, loads, timerOn, unhandled, lastFetched >>

\* main up to the registration of the load handler: without a token, the
\* banner and nothing else; with one, the map, the hidden tooltip element and
\* the first legend.
Main ==
  /\ pc = "start"
  /\ IF ~token
     THEN /\ banner' = showErrorBanner("Mapbox token not configured.")
          /\ pc' = "halted"
          /\ UNCHANGED << legend, tooltip, camera >>
     ELSE /\ camera' = InitialCamera
          /\ tooltip' = HiddenTooltip
          /\ legend' = renderLegend(metricSelect)
          /\ pc' = "waitLoad"
          /\ UNCHANGED banner
  /\ UNCHANGED << viewer, token, probe, metricSelect, statusText, beachesGeojson, source,
                  layer, limits, cursor, activePopup, activePopupLocationId,
                  popups, pointer, loads, timerOn, unhandled, lastFetched >>

\* ------------------------------------------------- loading and refreshing

\* A new invocation of loadDataAndRefreshSource, awaiting its summary fetch.
\* by: "load" for the map's load handler, "timer" for the interval callback.
NewLoad(by) == [at |-> "summary", by |-> by]

\* The map's "load" event: the handler calls loadDataAndRefreshSource and
\* awaits it.
MapLoad ==
  /\ pc = "waitLoad"
  /\ loads' = Append(loads, NewLoad("load"))
  /\ pc' = "initLoading"
  /\ UNCHANGED << viewer, token, probe, banner, timerOn, unhandled, lastFetched >>
  /\ UNCHANGED << interactionVars, styleVars, cameraVars, dataVars >>

\* Invocation n has resolved ("ended") or rejected ("failed").
Settled(n) == loads[n].at \in {"ended", "failed"}

\* The bound on a behaviour's ticks: MaxLoads invocations, none started
\* while another is in flight, when the viewer uses the page; MaxIdleLoads
\* invocations, overlapping freely, when the page is left alone.
TickAllowed ==
  IF viewer = "active"
  THEN Len(loads) < MaxLoads /\ \A n \in 1..Len(loads) : Settled(n)
  ELSE Len(loads) < MaxIdleLoads

\* The interval callback: loadDataAndRefreshSource().catch(() => {}).
Tick ==
  /\ timerOn
  /\ TickAllowed
  /\ loads' = Append(loads, NewLoad("timer"))
  /\ UNCHANGED << mainVars, timerOn, unhandled, lastFetched >>
  /\ UNCHANGED << interactionVars, styleVars, cameraVars, dataVars >>

\* new Date(summary.generatedAt).toLocaleString() for the summary document
\* invocation n fetched: each fetch sees the server's state of its moment.
LocaleText(n) == "T" \o ToString(n)

\* Mutant: a failed summary fetch leaves the status text as it was.
SummaryStatus_Stale(n, out) ==
  IF out = "ok" THEN "Updated: " \o LocaleText(n) ELSE statusText

\* The status text after the summary fetch of invocation n: out is "ok" (a
\* document with generatedAt), "nodate" (a document without it) or "fail"
\* (fetchJson threw: a network error, a status that is not ok, bad JSON).
SummaryStatus(n, out) ==
  IF out = "ok" THEN "Updated: " \o LocaleText(n) ELSE "Updated: " \o Dash

\* The summary fetch of invocation n settles: the try/catch sets the status
\* text and the function goes on to fetch the point collection.
SummaryDone(n, out) ==
  /\ n \in DOMAIN loads
  /\ loads[n].at = "summary"
  /\ statusText' = SummaryStatus(n, out)
  /\ loads' = [loads EXCEPT ![n].at = "geojson"]
  /\ UNCHANGED << mainVars, timerOn, unhandled, lastFetched, beachesGeojson, source >>
  /\ UNCHANGED << interactionVars, styleVars, cameraVars >>

\* Mutant: a document fetched by an older invocation than the one whose
\* document the source holds is dropped.
SetSourceData_NewestOnly(data) ==
  IF source.added /\ data.ver > source.data.ver
  THEN [source EXCEPT !.data = data] ELSE source

\* const src = map.getSource(SOURCE_ID); if (src) src.setData(beachesGeojson)
SetSourceData(data) ==
  IF source.added THEN [source EXCEPT !.data = data] ELSE source

\* Mutant: a refresh frames the camera again, as the load handler does.
RefreshDone_Reframe(n, feats) ==
  LET data == [ver |-> n, feats |-> feats]
  IN  /\ n \in DOMAIN loads
      /\ loads[n] = [at |-> "geojson", by |-> "timer"]
      /\ beachesGeojson' = data
      /\ source' = [source EXCEPT !.data = data]
      /\ camera' = InitialFraming(data)
      /\ loads' = [loads EXCEPT ![n].at = "ended"]
      /\ lastFetched' = n
      /\ UNCHANGED << mainVars, timerOn, unhandled, statusText, limits >>
      /\ UNCHANGED << interactionVars, styleVars >>

\* The point-collection fetch of a timer invocation n resolves with a
\* document: it is held and the source's data is set.
RefreshDone(n, feats) ==
  LET data == [ver |-> n, feats |-> feats]
  IN  /\ n \in DOMAIN loads
      /\ loads[n] = [at |-> "geojson", by |-> "timer"]
      /\ beachesGeojson' = data
      /\ source' = SetSourceData(data)
      /\ loads' = [loads EXCEPT ![n].at = "ended"]
      /\ lastFetched' = n
      /\ UNCHANGED << mainVars, timerOn, unhandled, statusText >>
      /\ UNCHANGED << interactionVars, styleVars, cameraVars >>

\* Mutant: a failed point-collection fetch empties the held collection and
\* the source.
RefreshFailed_Reset(n) ==
  /\ n \in DOMAIN loads
  /\ loads[n] = [at |-> "geojson", by |-> "timer"]
  /\ loads' = [loads EXCEPT ![n].at = "failed"]
  /\ beachesGeojson' = NullData
  /\ source' = [source EXCEPT !.data = NullData]
  /\ UNCHANGED << mainVars, timerOn, unhandled, lastFetched, statusText >>
  /\ UNCHANGED << interactionVars, styleVars, cameraVars >>

\* The point-collection fetch of a timer invocation n fails: fetchJson
\* throws, the invocation rejects and the interval callback's catch takes it.
RefreshFailed(n) ==
  /\ n \in DOMAIN loads
  /\ loads[n] = [at |-> "geojson", by |-> "timer"]
  /\ loads' = [loads EXCEPT ![n].at = "failed"]
  /\ UNCHANGED << mainVars, timerOn, unhandled, lastFetched, dataVars >>
  /\ UNCHANGED << interactionVars, styleVars, cameraVars >>

\* The paint of the layer the load handler adds.
AddedLayer(metric) ==
  [added |-> TRUE, circleColor |-> qualityColorExpression(metric)]

\* The point-collection fetch of the load handler's invocation resolves: the
\* document is held (there is no source yet to set), and the handler goes on
\* after its await: it frames the camera, sets the limits, adds the source
\* and the layer, registers the selector and pointer handlers and starts the
\* interval timer.
InitialLoadDone(n, feats) ==
  LET data == [ver |-> n, feats |-> feats]
  IN  /\ n \in DOMAIN loads
      /\ loads[n] = [at |-> "geojson", by |-> "load"]
      /\ beachesGeojson' = data
      /\ loads' = [loads EXCEPT ![n].at = "ended"]
      /\ lastFetched' = n
      /\ camera' = InitialFraming(data)
      /\ limits' = LoadLimits
      /\ source' = [added |-> TRUE, data |-> data]
      /\ layer' = AddedLayer(metricSelect)
      /\ timerOn' = TRUE
      /\ pc' = "ready"
      /\ UNCHANGED << viewer, token, probe, banner, unhandled, statusText, metricSelect, legend >>
      /\ UNCHANGED interactionVars

\* The point-collection fetch of the load handler's invocation fails: the
\* await in the load handler throws, nothing catches it, and the rest of the
\* handler (source, layer, handlers, timer) never runs.
InitialLoadFailed(n) ==
  /\ n \in DOMAIN loads
  /\ loads[n] = [at |-> "geojson", by |-> "load"]
  /\ loads' = [loads EXCEPT ![n].at = "failed"]
  /\ unhandled' = unhandled + 1
  /\ pc' = "loadRejected"
  /\ UNCHANGED << viewer, token, probe, banner, timerOn, lastFetched, dataVars >>
  /\ UNCHANGED << interactionVars, styleVars, cameraVars >>

\* ------------------------------------------------------------- the selector

applyMetricStyle(metric) ==
  IF ~layer.added THEN layer
  ELSE [layer EXCEPT !.circleColor = qualityColorExpression(metric)]

\* Mutant: the change listener also starts a load of the data.
SelectMetric_Refetch(k) ==
  /\ viewer = "active"
  /\ pc # "start"
  /\ k # metricSelect
  /\ metricSelect' = k
  /\ IF pc = "ready"
     THEN /\ layer' = [layer EXCEPT !.circleColor = qualityColorExpression(k)]
          /\ legend' = renderLegend(k)
          /\ loads' = IF Len(loads) < MaxLoads
                      THEN Append(loads, [at |-> "summary", by |-> "timer"])
                      ELSE loads
     ELSE UNCHANGED << layer, legend, loads >>
  /\ UNCHANGED << mainVars, interactionVars, cameraVars, dataVars >>
  /\ UNCHANGED << timerOn, unhandled, lastFetched >>

\* The viewer picks another option of the selector. The change listener is
\* registered at the end of the load handler; before that the element only
\* takes the new value.
SelectMetric(k) ==
  /\ viewer = "active"
  /\ pc # "start"
  /\ k # metricSelect
  /\ metricSelect' = k
  /\ IF pc = "ready"
     THEN /\ layer' = applyMetricStyle(k)
          /\ legend' = renderLegend(k)
     ELSE UNCHANGED << layer, legend >>
  /\ UNCHANGED << mainVars, interactionVars, cameraVars, dataVars, loadVars >>

\* ------------------------------------------------------- pointer handlers

Px(n) == ToString(n) \o "px"

\* Mutant: the tooltip is suppressed whenever a popup id is recorded.
SamePopupSpot_AnyPopup(p) == Truthy(activePopupLocationId)

\* Mutant: the dedup test is dropped.
SamePopupSpot_Never(p) == FALSE

\* Mutant: with a popup held, a feature without an id matches a recorded
\* null.
SamePopupSpot_IdlessMatch(p) ==
  /\ activePopup # NullPopup
  /\ activePopupLocationId = OrElse(Get(p, "id"), Null)

\* activePopupLocationId && p?.id && activePopupLocationId === p.id
SamePopupSpot(p) ==
  /\ Truthy(activePopupLocationId)
  /\ Truthy(Get(p, "id"))
  /\ activePopupLocationId = Get(p, "id")

\* buildTooltipHtml(props) of the mousemove handler, for each feature.
TooltipHtml ==
  [f \in 1..Len(FEATURES) |-> buildTooltipHtml(CoerceNumeric(FEATURES[f].props))]

\* buildPopupHtml(p) of the click handler, for each feature.
PopupHtml ==
  [f \in 1..Len(FEATURES) |-> buildPopupHtml(FEATURES[f].props)]

\* The tooltip after the mousemove handler ran for feature f at point pt.
MouseMoveTooltip(f, pt) ==
  LET p == FEATURES[f].props
  IN  IF SamePopupSpot(p)
      THEN [tooltip EXCEPT !.display = "none"]
      ELSE [ display |-> "block",
             html |-> TooltipHtml[f],
             left |-> Px(pt[1]),
             top |-> Px(pt[2]) ]

\* The pointer enters the layer's features. (The map delivers a layer's
\* pointer events with at least one feature, so the handlers' returns on a
\* missing feature are never taken.)
MouseEnter ==
  /\ viewer = "active"
  /\ pc = "ready"
  /\ Rendered # {}
  /\ cursor = ""
  /\ cursor' = "pointer"
  /\ UNCHANGED << tooltip, activePopup, activePopupLocationId, popups, pointer >>
  /\ UNCHANGED << mainVars, styleVars, cameraVars, dataVars, loadVars >>

MouseLeave ==
  /\ viewer = "active"
  /\ pc = "ready"
  /\ cursor = "pointer"
  /\ cursor' = ""
  /\ tooltip' = [tooltip EXCEPT !.display = "none"]
  /\ pointer' = Away
  /\ UNCHANGED << activePopup, activePopupLocationId, popups >>
  /\ UNCHANGED << mainVars, styleVars, cameraVars, dataVars, loadVars >>

MouseMove(f, pt) ==
  /\ viewer = "active"
  /\ pc = "ready"
  /\ cursor = "pointer"
  /\ f \in Rendered
  /\ tooltip' = MouseMoveTooltip(f, pt)
  /\ pointer' = f
  /\ UNCHANGED << cursor, activePopup, activePopupLocationId, popups >>
  /\ UNCHANGED << mainVars, styleVars, cameraVars, dataVars, loadVars >>

\* Mutant: the click handler does not remove the popup it holds.
RemoveActivePopup_Keep == popups

\* The popups left on the map by the click handler's
\* if (activePopup) { activePopup.remove(); activePopup = null; }
\* (remove takes the popup off the map and fires its close event, whose
\* handler clears activePopup and activePopupLocationId; the click handler
\* then assigns both anew).
RemoveActivePopup ==
  IF activePopup # NullPopup THEN {q \in popups : q.h # activePopup} ELSE popups

\* A handle for the new Popup object: one that no popup on the map and no
\* variable has when the handler starts.
NewHandle ==
  LET used == {q.h : q \in popups} \cup {activePopup}
  IN  Min({h \in 1..(Cardinality(used) + 1) : h \notin used})

\* Mutant: the click handler records the id only when none is recorded.
ClickedId_KeepOld(p) ==
  IF Truthy(activePopupLocationId) THEN activePopupLocationId
  ELSE OrElse(Get(p, "id"), Null)

\* p?.id || null
ClickedId(p) == OrElse(Get(p, "id"), Null)

\* new mapboxgl.Popup(...).setLngLat(coords).setHTML(buildPopupHtml(p)), with
\* the feature it was opened on.
NewPopup(h, f) ==
  [h |-> h, of |-> f, lngLat |-> FEATURES[f].coords, html |-> PopupHtml[f]]

Click(f) ==
  /\ viewer = "active"
  /\ pc = "ready"
  /\ f \in Rendered
  /\ activePopupLocationId' = ClickedId(FEATURES[f].props)
  /\ tooltip' = [tooltip EXCEPT !.display = "none"]
  /\ popups' = RemoveActivePopup \cup {NewPopup(NewHandle, f)}
  /\ activePopup' = NewHandle
  /\ UNCHANGED << cursor, pointer >>
  /\ UNCHANGED << mainVars, styleVars, cameraVars, dataVars, loadVars >>

\* Mutant: the close handler clears the handle and leaves the recorded id.
PopupClose_KeepId(h) ==
  /\ \E q \in popups : q.h = h
  /\ popups' = {q \in popups : q.h # h}
  /\ activePopup' = NullPopup
  /\ UNCHANGED << tooltip, cursor, pointer, activePopupLocationId >>
  /\ UNCHANGED << mainVars, styleVars, cameraVars, dataVars, loadVars >>

\* A popup on the map is closed (its close button, a click elsewhere on the
\* map, or remove()): it leaves the map and its close handler runs.
PopupClose(h) ==
  /\ \E q \in popups : q.h = h
  /\ popups' = {q \in popups : q.h # h}
  /\ activePopupLocationId' = Null
  /\ activePopup' = NullPopup
  /\ UNCHANGED << tooltip, cursor, pointer >>
  /\ UNCHANGED << mainVars, styleVars, cameraVars, dataVars, loadVars >>

\* ------------------------------------------------------------ specification

Next ==
  \/ Main
  \/ MapLoad
  \/ Tick
  \/ \E n \in 1..Len(loads), out \in {"ok", "nodate", "fail"} : SummaryDone(n, out)
  \/ \E n \in 1..Len(loads), c \in Collections : RefreshDone(n, c)
  \/ \E n \in 1..Len(loads) : RefreshFailed(n)
  \/ \E n \in 1..Len(loads), c \in Collections : InitialLoadDone(n, c)
  \/ \E n \in 1..Len(loads) : InitialLoadFailed(n)
  \/ \E k \in MetricKeys : SelectMetric(k)
  \/ MouseEnter
  \/ MouseLeave
  \/ \E f \in 1..Len(FEATURES), pt \in Points : MouseMove(f, pt)
  \/ \E f \in 1..Len(FEATURES) : Click(f)
  \/ \E h \in {q.h : q \in popups} : PopupClose(h)

Spec == Init /\ [][Next]_vars

\* The page left alone with every fetch succeeding: main, the load handler
\* and the interval's invocations, overlapping freely, each summary fetch
\* returning a document with generatedAt and each point-collection fetch a
\* document.
NoFailureInit == Init /\ viewer = "idle" /\ token

NoFailureNext ==
  \/ Main
  \/ MapLoad
  \/ Tick
  \/ \E n \in 1..Len(loads) : SummaryDone(n, "ok")
  \/ \E n \in 1..Len(loads), c \in Collections : RefreshDone(n, c)
  \/ \E n \in 1..Len(loads), c \in Collections : InitialLoadDone(n, c)

NoFailureSpec == NoFailureInit /\ [][NoFailureNext]_vars

\* -------------------------------------------- the style functions, probed

\* Metric keys handed to the style functions: the registry's, a missing one
\* ("") and one that is a property of the spots but not in the registry.
ProbeMetrics == MetricKeys \cup {"", "windSpeedMph"}

\* Values of the probed property (in tenths): absent, null, and numbers below,
\* at and above the thresholds of the registry.
ProbeValues ==
  {Undefined, Null} \cup
  {Num(x) : x \in {0, 2, 5, 8, 10, 30, 50, 70, 80, 120, 200, 349, 350, 549, 550, 750, 800}}

\* Values of the spot's qualityScore beside the probed property.
ProbeScores == {Undefined, Num(200), Num(800)}

\* A spot's properties: v under key m, q under qualityScore (v when m is
\* qualityScore).
ProbeBag(m, v, q) == (m :> v) @@ [qualityScore |-> q]

\* The layer is painted for metric m over a spot with these properties and
\* the legend is rendered for m: the colour the renderer gives the spot under
\* qualityColorExpression(m), and renderLegend(m).
Paint(m, v, q) ==
  /\ probe' = [ metric |-> m,
                props |-> ProbeBag(m, v, q),
                color |-> EvalColor(qualityColorExpression(m), ProbeBag(m, v, q)),
                legend |-> renderLegend(m) ]
  /\ UNCHANGED << viewer, token, pc, banner >>
  /\ UNCHANGED << interactionVars, styleVars, cameraVars, dataVars, loadVars >>

StyleInit == Init /\ viewer = "idle" /\ token

StyleNext ==
  \E m \in ProbeMetrics, v \in ProbeValues, q \in ProbeScores : Paint(m, v, q)

StyleSpec == StyleInit /\ [][StyleNext]_vars

\* ------------------------------------------------------------- properties

\* The id a feature's properties carry (undefined when they carry none).
SpotId(f) == Get(FEATURES[f].props, "id")

\* The features the point-collection document can hold.
FeatureIds == 1..Len(FEATURES)

\* A popup is displayed on a spot with id a.
PopupOpenOn(a) == \E q \in popups : SpotId(q.of) = a

\* C1 (dedup invariant): while a popup is displayed on a spot that carries an
\* id, the tooltip is never visible from a hover over a feature with that id
\* (neither showing that feature's content nor with the pointer on it), and a
\* mousemove over such a feature leaves the tooltip hidden.
C1_TooltipNotOverPopupSpot ==
  \A q \in popups : \A f \in FeatureIds :
    (Truthy(SpotId(q.of)) /\ SpotId(f) = SpotId(q.of) /\ tooltip.display = "block")
      => (tooltip.html # TooltipHtml[f] /\ pointer # f)

C1_DedupInvariant ==
  /\ []C1_TooltipNotOverPopupSpot
  /\ [][\A f \in FeatureIds, pt \in Points :
          (Truthy(SpotId(f)) /\ PopupOpenOn(SpotId(f)) /\ MouseMove(f, pt))
            => tooltip'.display = "none"]_vars

\* A mousemove over spot 7 has been suppressed: the popup is open on it, the
\* pointer is on it, and the hidden tooltip still holds the content of the
\* spot hovered before.
C1_Witness ==
  /\ \E q \in popups : q.of = 1 /\ SpotId(1) = Str(<<"7">>)
  /\ pointer = 1
  /\ tooltip.display = "none"
  /\ tooltip.html = TooltipHtml[2]

\* C2 (single popup): at most one popup is ever displayed, and a click on a
\* feature leaves exactly one popup on the map: a new one, anchored at the
\* clicked feature's coordinates with its content, held by activePopup, with
\* the feature's id recorded (null when it carries none); no popup displayed
\* before the click remains.
C2_AtMostOnePopup == Cardinality(popups) <= 1

C2_SinglePopup ==
  /\ []C2_AtMostOnePopup
  /\ [][\A f \in FeatureIds :
          Click(f) =>
            /\ \E q \in popups' :
                 /\ popups' = {q}
                 /\ q.lngLat = FEATURES[f].coords
                 /\ q.html = buildPopupHtml(FEATURES[f].props)
                 /\ activePopup' = q.h
                 /\ \A old \in popups : old.h # q.h
            /\ activePopupLocationId' =
                 (IF "id" \in DOMAIN FEATURES[f].props
                  THEN FEATURES[f].props.id ELSE Null)]_vars

\* Spot 8 was clicked while another popup was open: the only popup is a
\* second Popup object, anchored at spot 8, with id 8 recorded.
C2_Witness ==
  /\ popups = {NewPopup(2, 2)}
  /\ activePopup = 2
  /\ activePopupLocationId = Str(<<"8">>)

\* A step of the refresh: the interval callback starts an invocation, or an
\* invocation the callback started moves on or settles.
RefreshStep ==
  \E n \in DOMAIN loads' :
    /\ loads'[n].by = "timer"
    /\ n \in DOMAIN loads => loads'[n] # loads[n]

UnknownStatus == "Updated: " \o Dash

\* C4 (summary failure tolerance): when the summary fetch of an invocation
\* fails, or returns a document without generatedAt, the status text becomes
\* the unknown placeholder, the invocation goes on to its point-collection
\* fetch and nothing is thrown; and when that fetch then resolves, the
\* document it returned is held and is the source's data, the invocation
\* resolves and no rejection is left unhandled.
C4_SummaryFailureTolerated ==
  /\ [][\A n \in DOMAIN loads, out \in {"fail", "nodate"} :
          SummaryDone(n, out) =>
            /\ statusText' = UnknownStatus
            /\ loads'[n].at = "geojson"
            /\ unhandled' = unhandled
            /\ pc' = pc]_vars
  /\ [][\A n \in DOMAIN loads :
          (loads[n].at = "geojson" /\ loads'[n].at = "ended") =>
            /\ beachesGeojson'.ver = n
            /\ source'.added
            /\ source'.data = beachesGeojson'
            /\ unhandled' = unhandled
            /\ statusText' = statusText]_vars

\* The only invocation so far is the load handler's: its summary fetch gave
\* no update time, its point-collection fetch succeeded, and the source holds
\* what it fetched.
C4_Witness ==
  /\ Len(loads) = 1
  /\ loads[1].at = "ended"
  /\ statusText = UnknownStatus
  /\ source.added
  /\ source.data.ver = 1
  /\ source.data.feats # {}
  /\ unhandled = 0

\* C5 (retry after a point-collection failure): whenever an invocation has
\* rejected because its point-collection fetch failed, the rejection was
\* caught and the interval timer is running, so that a later tick starts a
\* new invocation.
C5_FailureCaughtAndRetried ==
  \A n \in DOMAIN loads :
    loads[n].at = "failed" => (unhandled = 0 /\ timerOn)

\* C6 (last write wins): whenever point-collection fetches have resolved,
\* the held collection and the source's data are the document of the
\* invocation whose fetch resolved last, whichever invocation started first;
\* this holds in particular once every invocation has settled.
C6_LastWriteWins ==
  lastFetched # 0 =>
    /\ beachesGeojson.ver = lastFetched
    /\ source.added
    /\ source.data = beachesGeojson

\* Two timer invocations overlapped and the one started first resolved last:
\* both have resolved, and the data is that of the earlier one.
C6_Witness ==
  /\ Len(loads) = 3
  /\ loads[2].at = "ended"
  /\ loads[3].at = "ended"
  /\ lastFetched = 2
  /\ source.data.ver = 2

\* C7 (unknown-metric fallback): for a metric key that is missing or not in
\* the registry, every spot gets the colour it gets under "qualityScore" and
\* the legend rendered is the qualityScore legend.
C7_UnknownMetricFallsBack ==
  (probe # NoProbe /\ probe.metric \notin MetricKeys) =>
    /\ probe.color = EvalColor(qualityColorExpression("qualityScore"), probe.props)
    /\ probe.legend = renderLegend("qualityScore")

\* C8 (hover on another spot): with a popup displayed on a spot with id A, a
\* mousemove over a feature whose id is another one shows the tooltip with
\* that feature's content at the pointer's point, and the popup stays on the
\* map, held by activePopup, with A still recorded.
C8_HoverOtherSpot ==
  [][\A q \in popups, f \in FeatureIds, pt \in Points :
       ( /\ Truthy(SpotId(q.of))
         /\ Truthy(SpotId(f))
         /\ SpotId(f) # SpotId(q.of)
         /\ MouseMove(f, pt) )
       => /\ tooltip' = [ display |-> "block",
                          html |-> buildTooltipHtml(CoerceNumeric(FEATURES[f].props)),
                          left |-> Px(pt[1]),
                          top |-> Px(pt[2]) ]
          /\ popups' = popups
          /\ activePopup' = q.h
          /\ activePopupLocationId' = SpotId(q.of)]_vars

\* The popup is open on spot 7 and the tooltip shows spot 8, hovered after the
\* click (a click hides the tooltip).
C8_Witness ==
  /\ \E q \in popups : q.of = 1 /\ activePopup = q.h
  /\ activePopupLocationId = Str(<<"7">>)
  /\ pointer = 2
  /\ tooltip.display = "block"
  /\ tooltip.html = TooltipHtml[2]

\* A popup leaves the map and none takes its place.
CloseStep == \E q \in popups : popups' = popups \ {q}

\* C9 (popup close): when the open popup is closed, activePopup and
\* activePopupLocationId are cleared and no popup is displayed, and the
\* tooltip, the cursor and the pointer are left as they were; and with no
\* popup displayed a mousemove over any feature shows its tooltip.
C9_PopupClose ==
  /\ [][CloseStep =>
          /\ popups' = {}
          /\ activePopup' = NullPopup
          /\ activePopupLocationId' = Null
          /\ UNCHANGED << tooltip, cursor, pointer >>]_vars
  /\ [][\A f \in FeatureIds, pt \in Points :
          (popups = {} /\ MouseMove(f, pt)) =>
            /\ tooltip'.display = "block"
            /\ tooltip'.html = TooltipHtml[f]]_vars

\* The popup on spot 7 has been closed with the pointer on that spot: the
\* pointer's last mousemove, over spot 7, was suppressed (the hidden tooltip
\* still holds spot 8's content), so the popup was open on spot 7, and now no
\* popup is displayed and nothing is recorded.
C9_Witness ==
  /\ popups = {}
  /\ activePopup = NullPopup
  /\ activePopupLocationId = Null
  /\ pointer = 1
  /\ cursor = "pointer"
  /\ tooltip.display = "none"
  /\ tooltip.html = TooltipHtml[2]

\* C10 (metric change is orthogonal): a change of the selector issues no
\* fetch and leaves the held collection, the source, the status text, the
\* tooltip, the popup and its recorded id, and the camera as they were; once
\* the change listener is registered it sets the layer's colour to the
\* expression of the new metric and renders its legend.
C10_MetricChangeOrthogonal ==
  [][metricSelect' # metricSelect =>
       /\ UNCHANGED << beachesGeojson, source, statusText >>
       /\ UNCHANGED << loads, timerOn, unhandled >>
       /\ UNCHANGED << tooltip, cursor, activePopup, activePopupLocationId, popups >>
       /\ UNCHANGED << camera, limits >>
       /\ pc = "ready" =>
            /\ layer' = [added |-> TRUE,
                         circleColor |-> qualityColorExpression(metricSelect')]
            /\ legend' = renderLegend(metricSelect')]_vars

\* The metric was changed with data loaded, a popup open and the tooltip
\* visible: layer and legend follow the selector, which is no longer on the
\* metric the page started with.
C10_Witness ==
  /\ pc = "ready"
  /\ metricSelect = "tideHeightFt"
  /\ layer.circleColor.get = "tideHeightFt"
  /\ legend.title = "Tide height (ft)"
  /\ popups # {}
  /\ tooltip.display = "block"
  /\ source.data.feats # {}

\* A step of a refresh that does not resolve: the interval callback starts
\* invocation n, its summary fetch settles, or its point-collection fetch
\* fails.
UnresolvedRefreshStep ==
  \E n \in DOMAIN loads' :
    /\ loads'[n].by = "timer"
    /\ loads'[n].at # "ended"
    /\ n \in DOMAIN loads => loads'[n] # loads[n]

\* C11 (state retained on fetch failure): no step of a refresh whose
\* point-collection fetch fails changes the held collection, the source's
\* data or the interaction state, so they are what they were when the
\* refresh started; and once a refresh has failed, the held collection is a
\* fetched document, not taken from that refresh and not reset to null, and
\* it is the source's data.
C11_StateRetainedOnFailure ==
  /\ [](\A n \in DOMAIN loads :
          loads[n] = [at |-> "failed", by |-> "timer"] =>
            /\ beachesGeojson.ver \notin {0, n}
            /\ source.added
            /\ source.data = beachesGeojson)
  /\ [][UnresolvedRefreshStep =>
          /\ beachesGeojson' = beachesGeojson
          /\ source' = source
          /\ UNCHANGED interactionVars]_vars

\* A refresh has failed with a popup displayed and a visible tooltip: the
\* data is still the non-empty document of the first load.
C11_Witness ==
  /\ Len(loads) = 2
  /\ loads[2] = [at |-> "failed", by |-> "timer"]
  /\ beachesGeojson = [ver |-> 1, feats |-> {1, 2, 3, 4}]
  /\ source.data = beachesGeojson
  /\ popups # {}
  /\ tooltip.display = "block"

\* C12 (configuration absence): without a token, main shows one error banner
\* and returns, and that is all that ever happens: no invocation of
\* loadDataAndRefreshSource starts, no source or layer is added, the legend
\* is not rendered, no handler acts (the selector's value may change, and
\* nothing follows from it), no timer runs and no rejection is unhandled.
C12_NoTokenNothingStarts ==
  ~token =>
    /\ \/ pc = "start" /\ banner = <<>>
       \/ pc = "halted" /\ banner = << "Mapbox token not configured." >>
    /\ loads = <<>>
    /\ ~timerOn
    /\ unhandled = 0
    /\ source = NoSource
    /\ layer = NoLayer
    /\ legend = NoLegend
    /\ statusText = ""
    /\ beachesGeojson = NullData
    /\ limits = UnsetLimits
    /\ popups = {}
    /\ activePopup = NullPopup
    /\ tooltip = HiddenTooltip
    /\ cursor = ""

\* main has returned after the banner, and the viewer has changed the
\* selector since.
C12_Witness ==
  /\ ~token
  /\ pc = "halted"
  /\ Len(banner) = 1
  /\ metricSelect = "tideHeightFt"

\* C13 (step-function band selection): for every registry metric and every
\* value of its property, the colour painted is the colour of the band of the
\* value, with the style's default value taken for an absent or null one;
\* for qualityScore (thresholds 35, 55, 75) 20 gives the first colour, 35
\* and 54.9 the second, 75 the fourth, and an absent value the colour of the
\* default value 0.
C13_BandSelection ==
  (probe # NoProbe /\ probe.metric \in MetricKeys) =>
    LET style == METRIC_STYLES[probe.metric]
        v == Get(probe.props, probe.metric)
        x == IF v.t = "num" THEN v.n ELSE style.defaultValue
        \* bands are numbered from 0 and a value is in the band numbered by
        \* the count of thresholds that are <= it
        BandColor(y) ==
          style.colors[Cardinality({i \in DOMAIN style.stops : style.stops[i] <= y}) + 1]
    IN  /\ probe.color = BandColor(x)
        /\ probe.metric = "qualityScore" =>
             /\ v = Num(200) => probe.color = style.colors[1]
             /\ v = Num(350) => probe.color = style.colors[2]
             /\ v = Num(549) => probe.color = style.colors[2]
             /\ v = Num(750) => probe.color = style.colors[4]
             /\ v \in {Undefined, Null} => probe.color = BandColor(0)

\* The layer was painted by qualityScore over a spot whose score is exactly
\* the first threshold, and the spot got the second colour.
C13_Witness ==
  /\ probe.metric = "qualityScore"
  /\ probe.props = ProbeBag("qualityScore", Num(350), Undefined)
  /\ probe.color = "#f0c24b"

\* The load handler has gone past its await in this step.
LoadHandlerStep == pc # "ready" /\ pc' = "ready"

\* C14 (viewport asserted once): the load handler frames the camera by
\* fitting the bounding box of the held collection's points, padding 40 and
\* zoom at most 10.2, or by the fixed centre and zoom 10.1 when the
\* collection is empty, and sets the pan bounds to the coverage rectangle
\* widened by 0.015 of longitude and 0.02 of latitude and the zoom range to
\* 9.0 - 13.5; from then on the limits are those in every state, and no
\* refresh, selector change, hover, click or popup close changes the camera
\* or the limits.
C14_ViewportAssertedOnce ==
  /\ [](pc = "ready" =>
          limits = [ maxBounds |-> << <<-122655, 37480>>, <<-122315, 38010>> >>,
                     minZoom |-> 90, maxZoom |-> 135 ])
  /\ [][LoadHandlerStep =>
          camera' =
            IF beachesGeojson'.feats = {}
            THEN [ op |-> "jumpTo", center |-> <<-122460, 37800>>, zoom |-> 101,
                   bounds |-> <<>>, padding |-> 0, maxZoom |-> 0 ]
            ELSE [ op |-> "fitBounds", center |-> <<>>, zoom |-> 0,
                   bounds |->
                     IF beachesGeojson'.feats = {1, 3}
                     THEN << <<-122510, 37500>>, <<-122480, 37760>> >>
                     ELSE << <<-122640, 37500>>, <<-122330, 37990>> >>,
                   padding |-> 40, maxZoom |-> 102 ]]_vars
  /\ [][pc = "ready" => UNCHANGED << camera, limits >>]_vars

\* The camera still frames the four points of the first load after a
\* refresh has emptied the source, with a popup displayed and another metric
\* selected.
C14_Witness ==
  /\ pc = "ready"
  /\ camera.op = "fitBounds"
  /\ camera.bounds = << <<-122640, 37500>>, <<-122330, 37990>> >>
  /\ source.data = [ver |-> 2, feats |-> {}]
  /\ popups # {}
  /\ metricSelect = "waveHeightFt"

\* C15 (registry well-formedness): every style of the registry has one
\* colour more than it has thresholds, and its thresholds are strictly
\* increasing; so the expression the layer is painted with, whatever the
\* key, has a base colour and one colour for each of its stops, in
\* increasing order of the stops.
C15_RegistryWellFormed ==
  /\ \A k \in MetricKeys :
       LET style == METRIC_STYLES[k]
       IN  /\ Len(style.colors) = Len(style.stops) + 1
           /\ \A i, j \in DOMAIN style.stops :
                i < j => style.stops[i] < style.stops[j]
  /\ probe # NoProbe =>
       LET expr == qualityColorExpression(probe.metric)
       IN  /\ Len(expr.steps) + 1 = Len(StyleOf(expr.get).colors)
           /\ \A i, j \in DOMAIN expr.steps :
                i < j => expr.steps[i][1] < expr.steps[j][1]

\* The layer was painted by waveHeightFt, the style with the most
\* thresholds, over a spot at its last threshold, which got the last colour.
C15_Witness ==
  /\ probe.metric = "waveHeightFt"
  /\ probe.props = ProbeBag("waveHeightFt", Num(120), Undefined)
  /\ probe.color = METRIC_STYLES.waveHeightFt.colors[6]
  /\ Len(METRIC_STYLES.waveHeightFt.stops) = 5

\* C16 (placeholder rule): every metric the visible tooltip and every
\* displayed popup show is rendered by the placeholder rule from the
\* properties of the feature it is shown for: the placeholder for a missing,
\* null or NaN value, 0 for a zero, and a numeric-looking string as the
\* number it denotes.
C16_PlaceholderAndCoercion ==
  LET \* what the rule asks for a value: the placeholder for a missing, null
      \* or NaN one, else its text, as a number when it looks like one
      PlaceholderText(v, suffix) ==
        IF v.t \in {"undefined", "null", "nan"} THEN Dash
        ELSE IF NumberOf(v).t = "num" THEN NumText(NumberOf(v).n) \o suffix
        ELSE ValueText(v) \o suffix
  IN
    /\ (tooltip.display = "block" /\ pointer # Away) =>
         LET p == FEATURES[pointer].props
         IN  /\ tooltip.html.quality = PlaceholderText(Get(p, "qualityScore"), "")
             /\ tooltip.html.wave = PlaceholderText(Get(p, "waveHeightFt"), " ft")
             /\ tooltip.html.period = PlaceholderText(Get(p, "dominantPeriodS"), " s")
             /\ tooltip.html.wind = PlaceholderText(Get(p, "windSpeedMph"), " mph")
             /\ tooltip.html.tide =
                  PlaceholderText(Get(p, "tideHeightFt"), " ft") \o " " \o TrendText(p)
    /\ \A q \in popups :
         LET p == FEATURES[q.of].props
         IN  /\ q.html.score = PlaceholderText(Get(p, "qualityScore"), "") \o " / 100"
             /\ q.html.height = PlaceholderText(Get(p, "waveHeightFt"), " ft")
             /\ q.html.period = PlaceholderText(Get(p, "dominantPeriodS"), " s")
             /\ q.html.waveDir = PlaceholderText(Get(p, "waveDirectionDeg"), Degree)
             /\ q.html.windSpeed = PlaceholderText(Get(p, "windSpeedMph"), " mph")
             /\ q.html.windDir = PlaceholderText(Get(p, "windDirectionDeg"), Degree)
             /\ q.html.tide =
                  PlaceholderText(Get(p, "tideHeightFt"), " ft") \o " " \o TrendText(p)

\* C17 as stated (id-less spots dedup against each other): with a popup
\* displayed on a spot that carries no id, the tooltip is hidden when the
\* pointer was last moved over another spot that carries no id.
C17_IdlessDedup ==
  \A q \in popups :
    ( /\ ~Truthy(SpotId(q.of))
      /\ pointer # Away
      /\ pointer # q.of
      /\ ~Truthy(SpotId(pointer)) ) => tooltip.display = "none"

\* C17 (id-less spots do not dedup): a popup displayed on a spot that
\* carries no id has null recorded for it, and a mousemove over a feature
\* that carries no id always shows the tooltip with that feature's content,
\* whatever popup is displayed.
C17_IdlessShowsTooltip ==
  /\ [](\A q \in popups : ~Truthy(SpotId(q.of)) => activePopupLocationId = Null)
  /\ [][\A f \in FeatureIds, pt \in Points :
          (MouseMove(f, pt) /\ ~Truthy(SpotId(f))) =>
            tooltip' = [ display |-> "block", html |-> TooltipHtml[f],
                         left |-> Px(pt[1]), top |-> Px(pt[2]) ]]_vars

\* A popup is displayed on feature 3, which carries no id, and the tooltip
\* shows feature 4, which carries none either.
C17_Witness ==
  /\ \E q \in popups : q.of = 3
  /\ activePopupLocationId = Null
  /\ pointer = 4
  /\ tooltip.display = "block"
  /\ tooltip.html = TooltipHtml[4]

\* C18 (legend and layer agree): whenever the layer exists, its colour
\* function is the one of the selector's value and the legend displayed is
\* that metric's legend.
C18_LegendMatchesLayer ==
  layer.added =>
    /\ layer.circleColor = qualityColorExpression(metricSelect)
    /\ legend = renderLegend(metricSelect)

\* C19 (popup bookkeeping): a popup is displayed exactly when activePopup
\* holds it, and then activePopupLocationId is the id of the spot it was
\* opened on (null when the spot carries none); with no popup displayed both
\* are null. In particular after a click that removed an earlier popup, the
\* new popup is the one held and its spot's id the one recorded.
C19_PopupBookkeeping ==
  /\ \A q \in popups :
       /\ activePopup = q.h
       /\ activePopupLocationId = OrElse(SpotId(q.of), Null)
  /\ activePopup # NullPopup => \E q \in popups : q.h = activePopup
  /\ popups = {} => activePopupLocationId = Null

\* A click on spot 7 has removed the popup that was displayed (the new
\* popup got the second handle) and the new popup is held with its id.
C19_Witness ==
  /\ activePopup = 2
  /\ \E q \in popups : q.h = 2 /\ q.of = 1
  /\ activePopupLocationId = Str(<<"7">>)

\* C20 (status and data from the same load): once every invocation has
\* completed, none of its fetches having failed, the update time the status
\* text shows is the one of the invocation whose document the source holds.
C20_StatusMatchesData ==
  (loads # <<>> /\ \A n \in DOMAIN loads : loads[n].at = "ended") =>
    statusText = "Updated: " \o LocaleText(source.data.ver)

====
